---- MODULE Spec2Model ----
(***************************************************************************)
(* The pass archive validator of pkpass-viewer: the App component whose    *)
(* upload handler opens a .pkpass archive, reads pass.json and runs        *)
(* validatePass (structure, keys and signature checks) on it.              *)
(*                                                                         *)
(* The component's React state is passData, results and error.  An upload  *)
(* is an async function: it is suspended at each await (opening the        *)
(* archive, reading pass.json, reading the signature entry), and other     *)
(* handlers run while it is suspended.  inflight holds the suspended       *)
(* uploads, each with its position and its archive.                        *)
(*                                                                         *)
(* The repository also holds the component as a viewer with a file browser *)
(* (src/src/App.tsx): it keeps the opened archive, the names of its        *)
(* entries, the logo and the content of the entry selected in the details  *)
(* panel.  The state of both variants is declared here; a specification    *)
(* runs one variant and leaves the other's variables as constructed.       *)
(***************************************************************************)
EXTENDS Integers, Sequences, FiniteSets, Bags, TLC

VARIABLES
    passData,   \* useState passData: the parsed pass.json, or null
    results,    \* useState results: {structure, keys, signature}
    error,      \* useState error: the banner text, "" when there is none
    inflight,   \* the suspended async calls (a bag of [pc, file] records)
    last        \* history: the upload that ended last, and how it ended

\* The viewer's state (src/src/App.tsx).
VARIABLES
    logoUrl,      \* useState logoUrl: the object URL of the logo, or null
    zipState,     \* useState zip: the opened archive, or null
    zipFiles,     \* useState zipFiles: the sorted entry names
    showDetails,  \* useState showDetails: the details panel is open
    selectedFile, \* useState selectedFile: the tab selected in the panel
    fileContent,  \* useState fileContent: the text shown, or null
    fileBlobUrl,  \* useState fileBlobUrl: the object URL of the image shown
    imageMeta,    \* useState imageMeta: the metadata of the image, or null
    objectUrls    \* the object URLs created and not revoked

viewerVars ==
    <<logoUrl, zipState, zipFiles, showDetails, selectedFile, fileContent,
      fileBlobUrl, imageMeta, objectUrls>>

vars == <<passData, results, error, inflight, last, viewerVars>>

\* At most this many calls are suspended at the same time.
MaxInFlight == 2
\* The clock and the certificates' validity dates range over 0..MaxTime.
MaxTime == 4
\* The viewer creates at most this many object URLs.
MaxUrls == 3

-----------------------------------------------------------------------------
(* JSON values, as JSON.parse returns them.                                *)

Null == [t |-> "null"]
Undefined == [t |-> "undefined"]
Num(n) == [t |-> "num", v |-> n]
Str(s) == [t |-> "str", v |-> s]
Bool(b) == [t |-> "bool", v |-> b]
Obj(f) == [t |-> "obj", f |-> f]

\* json.key for a json that is not null: undefined unless json is an
\* object holding the key (numbers, strings and booleans have no such
\* property).
Get(json, key) ==
    IF json.t = "obj" /\ key \in DOMAIN json.f THEN json.f[key] ELSE Undefined

\* The truthiness of a value, as `x ? a : b` and `!x` test it.
Truthy(x) ==
    CASE x.t = "null" -> FALSE
      [] x.t = "undefined" -> FALSE
      [] x.t = "bool" -> x.v
      [] x.t = "num" -> x.v # 0
      [] x.t = "str" -> x.v # ""
      [] OTHER -> TRUE

\* s.includes(sub), for a non-empty sub.
Includes(s, sub) ==
    \E i \in 1..(Len(s) - Len(sub) + 1) : SubSeq(s, i, i + Len(sub) - 1) = sub

-----------------------------------------------------------------------------
(* validatePass                                                            *)

OID_PASSTYPE == "1.2.840.113635.100.6.1.2"
OID_TEAMID == "1.2.840.113635.100.6.1.4"

ValidationResult(label, status, mandatory) ==
    [label |-> label, status |-> status, mandatory |-> mandatory]

\* zip.file(name) is truthy: the archive has an entry of exactly that name.
HasFile(zip, name) == name \in zip.entries

\* The checklist with icon@3x.png treated like the other five.
structureAllMandatory(zip) ==
    [i \in 1..6 |->
        ValidationResult(
            <<"Has manifest.json file", "Has pass.json", "Has signature file",
              "Has icon.png file", "Has icon@2x.png file",
              "Has icon@3x.png file (not mandatory)">>[i],
            IF HasFile(zip, <<"manifest.json", "pass.json", "signature",
                              "icon.png", "icon@2x.png", "icon@3x.png">>[i])
            THEN "success" ELSE "error",
            i <= 5)]

structure(zip) ==
    << ValidationResult("Has manifest.json file",
           IF HasFile(zip, "manifest.json") THEN "success" ELSE "error", TRUE),
       ValidationResult("Has pass.json",
           IF HasFile(zip, "pass.json") THEN "success" ELSE "error", TRUE),
       ValidationResult("Has signature file",
           IF HasFile(zip, "signature") THEN "success" ELSE "error", TRUE),
       ValidationResult("Has icon.png file",
           IF HasFile(zip, "icon.png") THEN "success" ELSE "error", TRUE),
       ValidationResult("Has icon@2x.png file",
           IF HasFile(zip, "icon@2x.png") THEN "success" ELSE "error", TRUE),
       ValidationResult("Has icon@3x.png file (not mandatory)",
           IF HasFile(zip, "icon@3x.png") THEN "success" ELSE "info", FALSE) >>

\* Building the keys array reads json.description first: a TypeError when
\* json is null.
KeysThrows(json) == json = Null

\* json.formatVersion == 1, the loose comparison.
formatVersionLoose(json) ==
    IF Get(json, "formatVersion") \in {Num(1), Str("1"), Bool(TRUE)}
    THEN "success" ELSE "error"

\* json.formatVersion === 1
formatVersionStatus(json) ==
    IF Get(json, "formatVersion") = Num(1) THEN "success" ELSE "error"

\* The keys tested with `!== undefined` instead of truthiness.
keysDefined(json) ==
    [i \in 1..6 |->
        ValidationResult(
            <<"Has description", "Has formatVersion with value of 1",
              "Has organizationName", "Has passTypeIdentifier",
              "Has serialNumber", "Has teamIdentifier">>[i],
            IF i = 2 THEN formatVersionStatus(json)
            ELSE IF Get(json, <<"description", "formatVersion",
                                "organizationName", "passTypeIdentifier",
                                "serialNumber", "teamIdentifier">>[i]) # Undefined
                 THEN "success" ELSE "error",
            TRUE)]

keys(json) ==
    << ValidationResult("Has description",
           IF Truthy(Get(json, "description")) THEN "success" ELSE "error", TRUE),
       ValidationResult("Has formatVersion with value of 1",
           formatVersionStatus(json), TRUE),
       ValidationResult("Has organizationName",
           IF Truthy(Get(json, "organizationName")) THEN "success" ELSE "error", TRUE),
       ValidationResult("Has passTypeIdentifier",
           IF Truthy(Get(json, "passTypeIdentifier")) THEN "success" ELSE "error", TRUE),
       ValidationResult("Has serialNumber",
           IF Truthy(Get(json, "serialNumber")) THEN "success" ELSE "error", TRUE),
       ValidationResult("Has teamIdentifier",
           IF Truthy(Get(json, "teamIdentifier")) THEN "success" ELSE "error", TRUE) >>

(* The signature entry's bytes are modelled by what decoding them gives:   *)
(*   "unreadable"  reading the entry rejects (a corrupt entry);            *)
(*   "garbage"     forge.asn1.fromDer throws;                              *)
(*   "notPkcs7"    forge.pkcs7.messageFromAsn1 throws;                     *)
(*   "enveloped"   a PKCS#7 message of another content type, which has no  *)
(*                 certificates array;                                     *)
(*   "signedData"  a signed-data message with its bundled certificates     *)
(*                 and its number of signer infos.                         *)
(* A certificate is [subject, issuer, validity, extensions]; subject and   *)
(* issuer map attribute short names (CN, OU, O) to values.                 *)

\* rdn.getField(sn): the attribute, or null.
getField(rdn, sn) ==
    IF sn \in DOMAIN rdn THEN [value |-> rdn[sn]] ELSE Null

\* cert.extensions.find(e => e.id === oid || e.name === oid): the first
\* such extension, or undefined.
findExtension(cert, oid) ==
    LET hits == {i \in 1..Len(cert.extensions) :
                    \/ cert.extensions[i].id = oid
                    \/ cert.extensions[i].name = oid}
    IN  IF hits = {} THEN Undefined
        ELSE cert.extensions[CHOOSE i \in hits : \A j \in hits : i <= j]

\* cert.issuer.getField("CN")?.value || ""
issuerCN(cert) ==
    LET field == getField(cert.issuer, "CN")
    IN  IF field = Null THEN "" ELSE field.value

passTypeResult(cert) ==
    ValidationResult("PassTypeIdentifier in signature matches pass.json",
        IF findExtension(cert, OID_PASSTYPE) # Undefined THEN "success" ELSE "error",
        TRUE)

teamIdResult(cert) ==
    ValidationResult("TeamIdentifier in signature matches pass.json",
        IF findExtension(cert, OID_TEAMID) # Undefined THEN "success" ELSE "error",
        TRUE)

\* issuer.startsWith("Apple")
issuerResultPrefix(cert) ==
    ValidationResult("PassKit Certificate issued by Apple",
        IF Len(issuerCN(cert)) >= 5 /\ SubSeq(issuerCN(cert), 1, 5) = "Apple"
        THEN "success" ELSE "error", TRUE)

issuerResult(cert) ==
    ValidationResult("PassKit Certificate issued by Apple",
        IF Includes(issuerCN(cert), "Apple") THEN "success" ELSE "error", TRUE)

\* now >= notBefore && now <= notAfter
inDateResultInclusive(cert, now) ==
    ValidationResult("PassKit Certificate in date",
        IF now >= cert.validity.notBefore /\ now <= cert.validity.notAfter
        THEN "success" ELSE "error", TRUE)

inDateResult(cert, now) ==
    ValidationResult("PassKit Certificate in date",
        IF now > cert.validity.notBefore /\ now < cert.validity.notAfter
        THEN "success" ELSE "error", TRUE)

\* The WWDR check flagged mandatory.
wwdrResultMandatory(cert) ==
    ValidationResult("WWDR Certificate is version (G4)",
        IF Includes(issuerCN(cert), "G4") THEN "success" ELSE "warning", TRUE)

wwdrResult(cert) ==
    ValidationResult("WWDR Certificate is version (G4)",
        IF Includes(issuerCN(cert), "G4") THEN "success" ELSE "warning", FALSE)

CryptographicCheckFailed ==
    ValidationResult("Cryptographic check failed", "error", TRUE)

\* The try block with the extension lookups tolerating an undefined cert
\* (cert?.extensions): the throw then comes at cert.issuer, after two pushes.
TryBlockLate(sig, now) ==
    IF sig.k \in {"unreadable", "garbage", "notPkcs7", "enveloped"}
    THEN [threw |-> TRUE, pushed |-> <<>>]
    ELSE IF sig.certificates = <<>>
    THEN [threw |-> TRUE,
          pushed |-> << ValidationResult(
                            "PassTypeIdentifier in signature matches pass.json",
                            "error", TRUE),
                        ValidationResult(
                            "TeamIdentifier in signature matches pass.json",
                            "error", TRUE) >>]
    ELSE LET cert == sig.certificates[1]
         IN  [threw |-> FALSE,
              pushed |-> << passTypeResult(cert), teamIdResult(cert),
                            issuerResult(cert), inDateResult(cert, now),
                            wwdrResult(cert) >>]

\* The body of the try block once the signature entry was found: what it
\* has pushed to signatureResults and whether it threw.  Every statement
\* that can throw (reading the entry, fromDer, messageFromAsn1,
\* p7.certificates[0] of a message without certificates, cert.extensions of
\* an undefined cert) comes before the first push.
TryBlock(sig, now) ==
    IF sig.k = "unreadable" THEN [threw |-> TRUE, pushed |-> <<>>]
    ELSE IF sig.k \in {"garbage", "notPkcs7"} THEN [threw |-> TRUE, pushed |-> <<>>]
    ELSE IF sig.k = "enveloped" THEN [threw |-> TRUE, pushed |-> <<>>]
    ELSE IF sig.certificates = <<>> THEN [threw |-> TRUE, pushed |-> <<>>]
    ELSE LET cert == sig.certificates[1]
         IN  [threw |-> FALSE,
              pushed |-> << passTypeResult(cert), teamIdResult(cert),
                            issuerResult(cert), inDateResult(cert, now),
                            wwdrResult(cert) >>]

\* signatureResults when validatePass calls setResults: nothing when the
\* archive has no signature entry; otherwise what the try block pushed,
\* followed by the catch block's result when it threw.
signatureResults(zip, now) ==
    IF ~HasFile(zip, "signature") THEN <<>>
    ELSE LET run == TryBlock(zip.sig, now)
         IN  IF run.threw THEN Append(run.pushed, CryptographicCheckFailed)
             ELSE run.pushed

\* The report of a validatePass that gives up on its other categories when
\* the try block throws.
reportAbortsOnThrow(zip, json, now) ==
    IF HasFile(zip, "signature") /\ TryBlock(zip.sig, now).threw
    THEN [structure |-> <<>>, keys |-> <<>>,
          signature |-> <<CryptographicCheckFailed>>]
    ELSE [structure |-> structure(zip), keys |-> keys(json),
          signature |-> signatureResults(zip, now)]

\* The report with the first two categories exchanged.
reportSwapped(zip, json, now) ==
    [structure |-> keys(json), keys |-> structure(zip),
     signature |-> signatureResults(zip, now)]

\* The whole report validatePass hands to setResults.
report(zip, json, now) ==
    [structure |-> structure(zip), keys |-> keys(json),
     signature |-> signatureResults(zip, now)]

\* Whether the run gets to `new Date()`.
ReadsClock(zip) ==
    /\ HasFile(zip, "signature")
    /\ ~TryBlock(zip.sig, 0).threw

-----------------------------------------------------------------------------
(* The archives the user may pick.                                         *)

ChecklistNames ==
    {"manifest.json", "pass.json", "signature", "icon.png", "icon@2x.png",
     "icon@3x.png"}

Absent == [k |-> "absent"]
Malformed == [k |-> "malformed"]
Text(json) == [k |-> "json", value |-> json]

\* A file that JSZip cannot open.
NotZip == [kind |-> "notzip"]

\* An archive with these entry names; pass is the content of its pass.json
\* and sig the content of its signature entry, when it has them.
ZipFile(entries, pass, sig) ==
    [kind |-> "zip", entries |-> entries,
     pass |-> IF "pass.json" \in entries THEN pass ELSE Absent,
     sig |-> IF "signature" \in entries THEN sig ELSE Absent]

\* A pass.json object; a key given as Undefined is left out.
Descriptor(description, formatVersion, organizationName, passTypeIdentifier, serialNumber, teamIdentifier) ==
    LET all == [description |-> description,
                formatVersion |-> formatVersion,
                organizationName |-> organizationName,
                passTypeIdentifier |-> passTypeIdentifier,
                serialNumber |-> serialNumber,
                teamIdentifier |-> teamIdentifier]
        present == {key \in DOMAIN all : all[key] # Undefined}
    IN  Obj([key \in present |-> all[key]])

BaseDescriptor ==
    Descriptor(Str("Concert"), Num(1), Str("Acme"), Str("pass.a"), Str("S1"),
               Str("TEAM1"))

Descriptors ==
    {Descriptor(d, fv, o, Str("pass.a"), s, Str("TEAM1")) :
        d \in {Undefined, Str(""), Str("Concert")},
        fv \in {Undefined, Num(0), Num(1), Num(2), Str("1"), Bool(TRUE)},
        o \in {Undefined, Str("Acme")},
        s \in {Undefined, Str("S1")}}
    \cup
    {Descriptor(Str("Concert"), Num(1), Str("Acme"), pt, Str("S1"), tm) :
        pt \in {Undefined, Str(""), Str("pass.a"), Str("pass.b")},
        tm \in {Undefined, Str("TEAM1"), Str("TEAM2")}}

\* The four field-group keys of a descriptor.
GroupNames == {"eventTicket", "boardingPass", "coupon", "generic"}

\* A field group, tagged with the key it is stored under.
FieldGroup(name) == Obj([primaryFields |-> Str(name)])

\* The descriptor json with the given values added under the given keys.
With(json, added) ==
    Obj([key \in DOMAIN json.f \cup DOMAIN added |->
            IF key \in DOMAIN added THEN added[key] ELSE json.f[key]])

\* Descriptors with every combination of field groups, and some whose
\* eventTicket key holds a value that is no object.
GroupDescriptors ==
    {With(BaseDescriptor, [name \in present |-> FieldGroup(name)]) :
        present \in SUBSET GroupNames}
    \cup
    {With(BaseDescriptor, [name \in present |->
            IF name = "eventTicket" THEN v ELSE FieldGroup(name)]) :
        present \in {{"eventTicket"}, {"eventTicket", "generic"}},
        v \in {Null, Str(""), Bool(FALSE)}}

\* What pass.json may hold: text that is no JSON, or any JSON value.
PassTexts ==
    {Malformed}
    \cup {Text(j) : j \in {Null, Num(0), Num(5), Str("x"), Bool(TRUE)}}
    \cup {Text(j) : j \in Descriptors}

\* An extension of an OID forge has no name for (e.name is undefined,
\* written "" here); its value is the raw DER string, a two-byte header
\* (written "##") before the text.
Extension(id, value) == [id |-> id, name |-> "", value |-> value]

BasicConstraints ==
    [id |-> "2.5.29.19", name |-> "basicConstraints", value |-> ""]

\* A certificate; "-" as passType or teamId leaves that extension out.
Certificate(passType, teamId, subject, issuer, notBefore, notAfter) ==
    [subject |-> subject,
     issuer |-> issuer,
     validity |-> [notBefore |-> notBefore, notAfter |-> notAfter],
     extensions |->
        <<BasicConstraints>>
        \o (IF passType = "-" THEN <<>>
            ELSE <<Extension(OID_PASSTYPE, passType)>>)
        \o (IF teamId = "-" THEN <<>>
            ELSE <<Extension(OID_TEAMID, teamId)>>)]

Subject(ou) == [CN |-> "Pass Type ID: pass.a", OU |-> ou]

AppleG4 == [CN |-> "Apple WWDR CA G4"]

Issuers ==
    {AppleG4, [CN |-> "Apple WWDR CA G3"], [CN |-> "Apple Root CA"],
     [CN |-> "Acme CA G4"], [CN |-> "apple ca"], [O |-> "Apple Inc."],
     [CN |-> "WWDR Apple CA"]}

BaseCertificate ==
    Certificate("##pass.a", "##TEAM1", Subject("TEAM1"), AppleG4, 1, 3)

\* The intermediate certificate a signed-data message may bundle.
Intermediate ==
    Certificate("-", "-", [CN |-> "Apple WWDR CA G4", OU |-> "G4"],
                [CN |-> "Apple Root CA"], 0, 3)

Certificates ==
    {Certificate(pt, tm, Subject(ou), AppleG4, 1, 3) :
        pt \in {"-", "##pass.a", "##pass.b"},
        tm \in {"-", "##TEAM1"},
        ou \in {"TEAM1", "TEAM2"}}
    \cup
    {Certificate("##pass.a", "##TEAM1", Subject(ou), issuer, 1, 3) :
        ou \in {"TEAM1", "G4 TEAM"}, issuer \in Issuers}
    \cup
    {Certificate("##pass.a", "##TEAM1", Subject("TEAM1"), AppleG4, w[1], w[2]) :
        w \in {<<2, 2>>, <<0, 1>>}}

SignedData(certificates, signerInfos) ==
    [k |-> "signedData", certificates |-> certificates,
     signerInfos |-> signerInfos]

BaseSignature == SignedData(<<BaseCertificate>>, 1)

Signatures ==
    {[k |-> kind] : kind \in {"unreadable", "garbage", "notPkcs7", "enveloped"}}
    \cup {SignedData(<<>>, n) : n \in {0, 1}}
    \cup {SignedData(<<cert>>, 1) : cert \in Certificates}
    \cup {SignedData(<<BaseCertificate>>, 0),
          SignedData(<<Intermediate, BaseCertificate>>, 1),
          SignedData(<<BaseCertificate, Intermediate>>, 1)}

\* Every archive of the single-upload specification.
AllFiles ==
    {NotZip}
    \cup {ZipFile(entries, Text(BaseDescriptor), BaseSignature) :
            entries \in SUBSET ChecklistNames}
    \cup {ZipFile(ChecklistNames, pass, sig) :
            pass \in PassTexts, sig \in Signatures}
    \cup {ZipFile(ChecklistNames \ {"signature"}, pass, Absent) :
            pass \in PassTexts}
    \cup {ZipFile(ChecklistNames, Text(json), BaseSignature) :
            json \in GroupDescriptors}
    \cup {ZipFile(ChecklistNames \ {"icon@3x.png"}, Text(BaseDescriptor),
                   SignedData(<<Certificate("##pass.a", "##TEAM1",
                                            Subject("TEAM1"), issuer, 1, 3)>>,
                              1)) :
            issuer \in Issuers}

\* The archives of the specification with concurrent uploads.
Files ==
    {NotZip,
     ZipFile(ChecklistNames \ {"pass.json"}, Absent, BaseSignature),
     ZipFile(ChecklistNames, Malformed, BaseSignature),
     ZipFile(ChecklistNames, Text(Null), BaseSignature),
     ZipFile(ChecklistNames, Text(BaseDescriptor), BaseSignature),
     ZipFile(ChecklistNames \ {"signature", "icon@3x.png"},
             Text(Descriptor(Str("Coupon"), Num(2), Undefined, Str("pass.b"),
                             Str("S2"), Str("TEAM2"))),
             Absent),
     ZipFile(ChecklistNames, Text(BaseDescriptor), [k |-> "garbage"])}

-----------------------------------------------------------------------------
(* The component                                                           *)

\* The field groups with generic tried first.
fieldsGenericFirst(data) ==
    IF ~Truthy(data) THEN Null
    ELSE IF Truthy(Get(data, "generic")) THEN Get(data, "generic")
    ELSE IF Truthy(Get(data, "coupon")) THEN Get(data, "coupon")
    ELSE IF Truthy(Get(data, "boardingPass")) THEN Get(data, "boardingPass")
    ELSE IF Truthy(Get(data, "eventTicket")) THEN Get(data, "eventTicket")
    ELSE Obj(<<>>)

\* const fields: the field group the pass preview renders, computed at
\* each render from passData; a || b is a when a is truthy, else b.
fields(data) ==
    IF ~Truthy(data) THEN Null
    ELSE IF Truthy(Get(data, "eventTicket")) THEN Get(data, "eventTicket")
    ELSE IF Truthy(Get(data, "boardingPass")) THEN Get(data, "boardingPass")
    ELSE IF Truthy(Get(data, "coupon")) THEN Get(data, "coupon")
    ELSE IF Truthy(Get(data, "generic")) THEN Get(data, "generic")
    ELSE Obj(<<>>)

CriticalError == "Critical error: This is not a valid PKPASS archive."

EmptyResults == [structure |-> <<>>, keys |-> <<>>, signature |-> <<>>]

\* The clock was not read.
NoTime == "none"
NoRun == [outcome |-> "none"]

\* JSON.parse of the text of pass.json.
ParseThrows(pass) == pass.k = "malformed"
JSONparse(pass) == pass.value

Ended(upload, outcome, now) ==
    [file |-> upload.file, outcome |-> outcome, now |-> now]

Suspend(upload, pc) ==
    (inflight (-) SetToBag({upload}))
        (+) SetToBag({[pc |-> pc, file |-> upload.file]})

Init ==
    /\ passData = Null
    /\ results = EmptyResults
    /\ error = ""
    /\ inflight = EmptyBag
    /\ last = NoRun
    /\ logoUrl = Null
    /\ zipState = Null
    /\ zipFiles = <<>>
    /\ showDetails = FALSE
    /\ selectedFile = "pass.json"
    /\ fileContent = Null
    /\ fileBlobUrl = Null
    /\ imageMeta = Null
    /\ objectUrls = {}

\* handleFileUpload up to `await zip.loadAsync(file)`.  The file input is
\* rendered only while passData is falsy.
handleFileUpload(file) ==
    /\ ~Truthy(passData)
    /\ error' = ""
    /\ inflight' = inflight (+) SetToBag({[pc |-> "loadAsync", file |-> file]})
    /\ UNCHANGED <<passData, results, last, viewerVars>>

\* The catch block of handleFileUpload, which ends the upload.
Catch(upload) ==
    /\ error' = CriticalError
    /\ inflight' = inflight (-) SetToBag({upload})
    /\ last' = Ended(upload, "error", NoTime)

\* loadAsync settles: it rejects for a file that is no archive; otherwise
\* contents.file("pass.json")!.async(...) throws when there is no such
\* entry, and else the handler awaits the entry's text.
LoadAsyncDone(upload) ==
    /\ BagIn(upload, inflight)
    /\ upload.pc = "loadAsync"
    /\ UNCHANGED viewerVars
    /\ IF upload.file.kind = "notzip" \/ ~HasFile(upload.file, "pass.json")
       THEN /\ Catch(upload)
            /\ UNCHANGED <<passData, results>>
       ELSE /\ inflight' = Suspend(upload, "readPass")
            /\ UNCHANGED <<passData, results, error, last>>

\* The text of pass.json arrives: JSON.parse, setPassData, and validatePass
\* up to its await of the signature entry (or to its end, when the archive
\* has no signature entry).
ReadPassDone(upload) ==
    /\ BagIn(upload, inflight)
    /\ upload.pc = "readPass"
    /\ UNCHANGED viewerVars
    /\ IF ParseThrows(upload.file.pass)
       THEN /\ Catch(upload)
            /\ UNCHANGED <<passData, results>>
       ELSE LET json == JSONparse(upload.file.pass)
            IN  /\ passData' = json
                /\ IF KeysThrows(json)
                   THEN /\ Catch(upload)
                        /\ UNCHANGED results
                   ELSE IF ~HasFile(upload.file, "signature")
                   THEN /\ results' = report(upload.file, json, NoTime)
                        /\ inflight' = inflight (-) SetToBag({upload})
                        /\ last' = Ended(upload, "report", NoTime)
                        /\ UNCHANGED error
                   ELSE /\ inflight' = Suspend(upload, "readSignature")
                        /\ UNCHANGED <<results, error, last>>

\* The bytes of the signature entry arrive (or reading them rejects): the
\* rest of the try block, the catch block and setResults.
ReadSignatureDone(upload) ==
    /\ BagIn(upload, inflight)
    /\ upload.pc = "readSignature"
    /\ \E now \in (IF ReadsClock(upload.file) THEN 0..MaxTime ELSE {NoTime}) :
          /\ results' = report(upload.file, JSONparse(upload.file.pass), now)
          /\ last' = Ended(upload, "report", now)
    /\ inflight' = inflight (-) SetToBag({upload})
    /\ UNCHANGED <<passData, error, viewerVars>>

\* The New Check button, rendered while passData is truthy.
NewCheck ==
    /\ Truthy(passData)
    /\ passData' = Null
    /\ UNCHANGED <<results, error, inflight, last, viewerVars>>

Uploads == BagToSet(inflight)

\* Uploads of the archives of Files, up to MaxInFlight of them suspended at
\* the same time.
Next ==
    \/ \E file \in Files :
          /\ BagCardinality(inflight) < MaxInFlight
          /\ handleFileUpload(file)
    \/ \E upload \in Uploads : LoadAsyncDone(upload)
    \/ \E upload \in Uploads : ReadPassDone(upload)
    \/ \E upload \in Uploads : ReadSignatureDone(upload)
    \/ NewCheck

Spec == Init /\ [][Next]_vars

\* One upload of any archive of AllFiles.
NextOne ==
    \/ \E file \in AllFiles :
          /\ last = NoRun
          /\ inflight = EmptyBag
          /\ handleFileUpload(file)
    \/ \E upload \in Uploads : LoadAsyncDone(upload)
    \/ \E upload \in Uploads : ReadPassDone(upload)
    \/ \E upload \in Uploads : ReadSignatureDone(upload)
    \/ NewCheck

SpecOne == Init /\ [][NextOne]_vars

\* Uploads of the archives of Files, one after the other: the user picks a
\* file only when no upload is suspended.
NextSeq ==
    \/ \E file \in Files :
          /\ inflight = EmptyBag
          /\ handleFileUpload(file)
    \/ \E upload \in Uploads : LoadAsyncDone(upload)
    \/ \E upload \in Uploads : ReadPassDone(upload)
    \/ \E upload \in Uploads : ReadSignatureDone(upload)
    \/ NewCheck

SpecSeq == Init /\ [][NextSeq]_vars

-----------------------------------------------------------------------------
(* The viewer (src/src/App.tsx): handleUpload, loadFile, the Reset and     *)
(* details buttons and the tabs of the file browser.  A suspended call is  *)
(* [pc, file, name]: its position, its archive and the entry it reads.     *)

ViewerError == "This file is not a valid .pkpass archive."

\* name.endsWith(suffix)
EndsWith(s, suffix) ==
    /\ Len(s) >= Len(suffix)
    /\ SubSeq(s, Len(s) - Len(suffix) + 1, Len(s)) = suffix

\* name.endsWith(".json")
IsJsonName(name) == EndsWith(name, ".json")

\* name.match(/\.(png|jpg|jpeg)$/)
IsImageName(name) ==
    \/ EndsWith(name, ".png")
    \/ EndsWith(name, ".jpg")
    \/ EndsWith(name, ".jpeg")

\* The entry names of the viewer's archives, in the order of localeCompare.
NameOrder ==
    <<"icon.png", "icon@2x.png", "logo.png", "pass.json", "signature",
      "strip.png">>

Position(name) == CHOOSE i \in 1..Len(NameOrder) : NameOrder[i] = name

\* The comparator of the sort in handleUpload returns a negative number.
Before(a, b) ==
    IF IsJsonName(a) THEN TRUE
    ELSE IF IsJsonName(b) THEN FALSE
    ELSE Position(a) < Position(b)

\* Object.keys(zip.files).sort(...): the orders of the entry names the
\* comparator allows (one order, when at most one name ends with .json).
sortedKeys(zipInstance) ==
    LET names == zipInstance.entries
        n == Cardinality(names)
    IN  {files \in [1..n -> names] :
            /\ \A i, j \in 1..n : i # j => files[i] # files[j]
            /\ \A i, j \in 1..n : i < j => Before(files[i], files[j])}

\* file.async("string"): the text of an entry.
EntryText(zipInstance, name) ==
    IF name = "pass.json" THEN zipInstance.pass
    ELSE [k |-> "raw", name |-> name, archive |-> zipInstance]

\* file.async("blob"): the bytes of an entry.
EntryBlob(zipInstance, name) == [name |-> name, archive |-> zipInstance]

\* URL.createObjectURL(blob): a new URL at every call, also for the same
\* entry of the same archive.  No URL is ever revoked, so the URLs created
\* so far are those of objectUrls and the next serial number is free.
createObjectURL(blob) == [url |-> blob, id |-> Cardinality(objectUrls) + 1]

\* JSON.stringify(value, null, 2): the indented text of a value.
JSONstringify(json) == [k |-> "indented", value |-> json]

\* The object img.onload hands to setImageMeta; size, width, height and
\* type are those of the blob.
ImageMeta(name, blob) ==
    [name |-> name,
     blob |-> blob,
     scale |-> IF Includes(name, "@2x") THEN "@2x"
               ELSE IF Includes(name, "@3x") THEN "@3x"
               ELSE "@1x"]

LogoNames == <<"logo@2x.png", "logo.png", "icon@2x.png", "icon.png">>

\* zip.file("logo@2x.png") || zip.file("logo.png") || zip.file("icon@2x.png")
\* || zip.file("icon.png"): the first of them the archive has, or null.
logoFile(zipInstance) ==
    LET hits == {i \in 1..Len(LogoNames) : HasFile(zipInstance, LogoNames[i])}
    IN  IF hits = {} THEN Null
        ELSE [name |-> LogoNames[CHOOSE i \in hits : \A j \in hits : i <= j]]

\* The archives the user may pick in the viewer; their pass.json is their
\* only .json entry.
ViewerFiles ==
    {NotZip,
     ZipFile({"logo.png"}, Absent, Absent),
     ZipFile({"pass.json", "icon.png"}, Malformed, Absent),
     ZipFile({"pass.json", "logo.png", "signature"}, Text(BaseDescriptor),
             [k |-> "garbage"]),
     ZipFile({"pass.json", "strip.png"},
             Text(Descriptor(Str("Coupon"), Num(1), Str("Shop"), Str("pass.b"),
                             Str("S2"), Str("TEAM2"))),
             Absent)}

Call(pc, file, name) == [pc |-> pc, file |-> file, name |-> name]

\* The call goes on to its next await.
Continue(call, pc, name) ==
    (inflight (-) SetToBag({call})) (+) SetToBag({Call(pc, call.file, name)})

\* The catch block of handleUpload, which ends the upload.
ViewerCatch(call) ==
    /\ error' = ViewerError
    /\ inflight' = inflight (-) SetToBag({call})

\* handleUpload up to `await JSZip.loadAsync(file)`.  UploadView is rendered
\* only while passData is falsy.
handleUpload(file) ==
    /\ ~Truthy(passData)
    /\ error' = ""
    /\ showDetails' = FALSE
    /\ inflight' = inflight (+) SetToBag({Call("loadAsync", file, "")})
    /\ UNCHANGED <<passData, results, last, logoUrl, zipState, zipFiles,
                   selectedFile, fileContent, fileBlobUrl, imageMeta,
                   objectUrls>>

\* loadAsync settles.  For an archive: setZip, setZipFiles, setSelectedFile
\* and loadFile(zip, "pass.json") up to its await; without a pass.json entry
\* loadFile returns at once and `if (!jsonText) throw` ends the upload.
OpenDone(call) ==
    /\ BagIn(call, inflight)
    /\ call.pc = "loadAsync"
    /\ IF call.file.kind = "notzip"
       THEN /\ ViewerCatch(call)
            /\ UNCHANGED <<zipState, zipFiles, selectedFile, fileContent,
                           fileBlobUrl>>
       ELSE /\ zipState' = call.file
            /\ \E files \in sortedKeys(call.file) : zipFiles' = files
            /\ selectedFile' = "pass.json"
            /\ fileContent' = Null
            /\ fileBlobUrl' = Null
            /\ IF HasFile(call.file, "pass.json")
               THEN /\ inflight' = Continue(call, "loadFile", "pass.json")
                    /\ UNCHANGED error
               ELSE ViewerCatch(call)
    /\ UNCHANGED <<passData, results, last, logoUrl, showDetails, imageMeta,
                   objectUrls>>

\* The text loadFile(zip, "pass.json") awaits arrives: JSON.parse throws
\* into the catch block of handleUpload, or setFileContent runs and
\* handleUpload goes on to read pass.json itself.
LoadPassFileDone(call) ==
    /\ BagIn(call, inflight)
    /\ call.pc = "loadFile"
    /\ IF ParseThrows(EntryText(call.file, call.name))
       THEN /\ ViewerCatch(call)
            /\ UNCHANGED fileContent
       ELSE /\ fileContent' =
                 JSONstringify(JSONparse(EntryText(call.file, call.name)))
            /\ inflight' = Continue(call, "readPass", "pass.json")
            /\ UNCHANGED error
    /\ UNCHANGED <<passData, results, last, logoUrl, zipState, zipFiles,
                   showDetails, selectedFile, fileBlobUrl, imageMeta,
                   objectUrls>>

\* jsonText arrives: setPassData, and the read of the logo entry when the
\* archive has one.
ReadJsonTextDone(call) ==
    /\ BagIn(call, inflight)
    /\ call.pc = "readPass"
    /\ passData' = JSONparse(EntryText(call.file, "pass.json"))
    /\ inflight' = IF logoFile(call.file) = Null
                   THEN inflight (-) SetToBag({call})
                   ELSE Continue(call, "readLogo", logoFile(call.file).name)
    /\ UNCHANGED <<results, error, last, viewerVars>>

\* The blob of the logo arrives: createObjectURL and setLogoUrl.
ReadLogoDone(call) ==
    /\ BagIn(call, inflight)
    /\ call.pc = "readLogo"
    /\ Cardinality(objectUrls) < MaxUrls
    /\ LET url == createObjectURL(EntryBlob(call.file, call.name))
       IN  /\ logoUrl' = url
           /\ objectUrls' = objectUrls \cup {url}
    /\ inflight' = inflight (-) SetToBag({call})
    /\ UNCHANGED <<passData, results, error, last, zipState, zipFiles,
                   showDetails, selectedFile, fileContent, fileBlobUrl,
                   imageMeta>>

\* The details button, rendered while passData is truthy.
ToggleDetails ==
    /\ Truthy(passData)
    /\ showDetails' = ~showDetails
    /\ UNCHANGED <<passData, results, error, inflight, last, logoUrl,
                   zipState, zipFiles, selectedFile, fileContent, fileBlobUrl,
                   imageMeta, objectUrls>>

\* The Reset button, rendered while passData is truthy.
Reset ==
    /\ Truthy(passData)
    /\ passData' = Null
    /\ zipState' = Null
    /\ UNCHANGED <<results, error, inflight, last, logoUrl, zipFiles,
                   showDetails, selectedFile, fileContent, fileBlobUrl,
                   imageMeta, objectUrls>>

\* A tab of the details panel: `zip && loadFile(zip, name)` up to the await
\* of loadFile; loadFile returns at once when the archive has no such entry.
TabClick(name) ==
    /\ Truthy(passData)
    /\ showDetails
    /\ \E i \in 1..Len(zipFiles) : zipFiles[i] = name
    /\ zipState # Null
    /\ selectedFile' = name
    /\ fileContent' = Null
    /\ fileBlobUrl' = Null
    /\ inflight' = IF HasFile(zipState, name)
                   THEN inflight (+) SetToBag({Call("tabRead", zipState, name)})
                   ELSE inflight
    /\ UNCHANGED <<passData, results, error, last, logoUrl, zipState,
                   zipFiles, showDetails, imageMeta, objectUrls>>

\* The read a tab's loadFile awaits settles: setFileContent for a text
\* entry (nothing when JSON.parse throws: the rejection is not handled);
\* createObjectURL, img.src and setFileBlobUrl for an image.
LoadFileDone(call) ==
    /\ BagIn(call, inflight)
    /\ call.pc = "tabRead"
    /\ IsImageName(call.name) => Cardinality(objectUrls) < MaxUrls
    /\ IF IsJsonName(call.name)
       THEN /\ fileContent' =
                 IF ParseThrows(EntryText(call.file, call.name))
                 THEN fileContent
                 ELSE JSONstringify(JSONparse(EntryText(call.file, call.name)))
            /\ inflight' = inflight (-) SetToBag({call})
            /\ UNCHANGED <<fileBlobUrl, objectUrls>>
       ELSE IF IsImageName(call.name)
       THEN LET url == createObjectURL(EntryBlob(call.file, call.name))
            IN  /\ objectUrls' = objectUrls \cup {url}
                /\ fileBlobUrl' = url
                /\ inflight' = Continue(call, "onload", call.name)
                /\ UNCHANGED fileContent
       ELSE /\ fileContent' = EntryText(call.file, call.name)
            /\ inflight' = inflight (-) SetToBag({call})
            /\ UNCHANGED <<fileBlobUrl, objectUrls>>
    /\ UNCHANGED <<passData, results, error, last, logoUrl, zipState,
                   zipFiles, showDetails, selectedFile, imageMeta>>

\* img.onload: setImageMeta.
ImageLoaded(call) ==
    /\ BagIn(call, inflight)
    /\ call.pc = "onload"
    /\ imageMeta' = ImageMeta(call.name, EntryBlob(call.file, call.name))
    /\ inflight' = inflight (-) SetToBag({call})
    /\ UNCHANGED <<passData, results, error, last, logoUrl, zipState,
                   zipFiles, showDetails, selectedFile, fileContent,
                   fileBlobUrl, objectUrls>>

\* The viewer with up to MaxInFlight calls suspended at the same time.
NextViewer ==
    \/ \E file \in ViewerFiles :
          /\ BagCardinality(inflight) < MaxInFlight
          /\ handleUpload(file)
    \/ \E call \in Uploads : OpenDone(call)
    \/ \E call \in Uploads : LoadPassFileDone(call)
    \/ \E call \in Uploads : ReadJsonTextDone(call)
    \/ \E call \in Uploads : ReadLogoDone(call)
    \/ ToggleDetails
    \/ Reset
    \/ \E i \in 1..Len(zipFiles) :
          /\ BagCardinality(inflight) < MaxInFlight
          /\ TabClick(zipFiles[i])
    \/ \E call \in Uploads : LoadFileDone(call)
    \/ \E call \in Uploads : ImageLoaded(call)

SpecViewer == Init /\ [][NextViewer]_vars

\* The viewer used one step at a time: the user acts only when no call is
\* suspended.
NextViewerSeq ==
    \/ \E file \in ViewerFiles :
          /\ inflight = EmptyBag
          /\ handleUpload(file)
    \/ \E call \in Uploads : OpenDone(call)
    \/ \E call \in Uploads : LoadPassFileDone(call)
    \/ \E call \in Uploads : ReadJsonTextDone(call)
    \/ \E call \in Uploads : ReadLogoDone(call)
    \/ inflight = EmptyBag /\ ToggleDetails
    \/ inflight = EmptyBag /\ Reset
    \/ \E i \in 1..Len(zipFiles) :
          /\ inflight = EmptyBag
          /\ TabClick(zipFiles[i])
    \/ \E call \in Uploads : LoadFileDone(call)
    \/ \E call \in Uploads : ImageLoaded(call)

SpecViewerSeq == Init /\ [][NextViewerSeq]_vars

\* The file browser: one upload at a time, started when no call is
\* suspended, and up to MaxInFlight tab reads suspended at the same time.
NextBrowser ==
    \/ \E file \in ViewerFiles :
          /\ inflight = EmptyBag
          /\ handleUpload(file)
    \/ \E call \in Uploads : OpenDone(call)
    \/ \E call \in Uploads : LoadPassFileDone(call)
    \/ \E call \in Uploads : ReadJsonTextDone(call)
    \/ \E call \in Uploads : ReadLogoDone(call)
    \/ inflight = EmptyBag /\ ToggleDetails
    \/ inflight = EmptyBag /\ Reset
    \/ \E i \in 1..Len(zipFiles) :
          /\ BagCardinality(inflight) < MaxInFlight
          /\ \A call \in Uploads : call.pc \in {"tabRead", "onload"}
          /\ TabClick(zipFiles[i])
    \/ \E call \in Uploads : LoadFileDone(call)
    \/ \E call \in Uploads : ImageLoaded(call)

SpecBrowser == Init /\ [][NextBrowser]_vars

-----------------------------------------------------------------------------
(* Properties.  In each of them `last` names the upload that ended last:   *)
(* its archive, whether it ended in the catch block ("error") or with      *)
(* setResults ("report"), and the time it read from the clock.             *)

\* The last upload ended and nothing was started since.
Settled == last # NoRun /\ inflight = EmptyBag

\* The last upload ended with a report.
Reported == last # NoRun /\ last.outcome = "report"

\* The descriptor read from the archive of the last upload.
LastJson == last.file.pass.value

\* The decoder cannot get a certificate out of this signature entry.
DecodingFails(sig) ==
    \/ sig.k \in {"unreadable", "garbage", "notPkcs7", "enveloped"}
    \/ sig.k = "signedData" /\ Len(sig.certificates) = 0

\* C1: after an upload of an archive that has no pass.json, the error is
\* set, the report holds no structure, keys or signature results (none left
\* over from an earlier upload either) and no Pass Descriptor is set.
C1_MissingPassJsonLeavesNoReport ==
    (/\ Settled
     /\ last.file.kind = "zip"
     /\ "pass.json" \notin last.file.entries)
    => /\ error = CriticalError
       /\ results.structure = <<>>
       /\ results.keys = <<>>
       /\ results.signature = <<>>
       /\ passData = Null

\* C2: once the archive opened and pass.json parsed as JSON (any JSON
\* value, null included), the upload ends with a report {structure, keys,
\* signature} and no top-level error.
C2_ParsedPassJsonAlwaysReports ==
    (/\ Settled
     /\ last.file.kind = "zip"
     /\ "pass.json" \in last.file.entries
     /\ last.file.pass.k = "json")
    => /\ error = ""
       /\ last.outcome = "report"
       /\ Len(results.structure) = 6
       /\ Len(results.keys) = 6

\* C3: when a step of the Signature Verifier throws, the signature category
\* is exactly the one result 'Cryptographic check failed' (error,
\* mandatory): nothing pushed before the throw remains, nothing follows.
C3_ThrowLeavesOnlyFailFastResult ==
    (/\ Reported
     /\ "signature" \in last.file.entries
     /\ DecodingFails(last.file.sig))
    => results.signature =
         << [label |-> "Cryptographic check failed", status |-> "error",
             mandatory |-> TRUE] >>

\* C3 witness: a signed-data message without certificates was decoded, the
\* read of cert.extensions threw, and the report is in.
C3_Witness ==
    /\ Reported
    /\ "signature" \in last.file.entries
    /\ last.file.sig.k = "signedData"
    /\ last.file.sig.certificates = <<>>
    /\ Len(results.signature) = 1

\* C4: for an archive with pass.json and without a signature entry, the
\* structure category marks the signature item as error and the signature
\* category holds exactly one result, of status error.
C4_MissingSignatureFailsFast ==
    (/\ Reported
     /\ "signature" \notin last.file.entries)
    => /\ results.structure[3].status = "error"
       /\ Len(results.signature) = 1
       /\ results.signature[1].status = "error"

\* The last upload decoded a certificate and ran the five certificate
\* checks on it.
CertificateRun ==
    /\ Reported
    /\ "signature" \in last.file.entries
    /\ ~DecodingFails(last.file.sig)

\* The same, for a message bundling exactly one certificate.
SingleCertificateRun ==
    CertificateRun /\ Len(last.file.sig.certificates) = 1

\* The certificate the checks of the last upload read.
LastCertificate == last.file.sig.certificates[1]

\* The raw values of a certificate's extensions of this OID.
ExtensionValues(cert, oid) ==
    {cert.extensions[i].value :
        i \in {j \in 1..Len(cert.extensions) : cert.extensions[j].id = oid}}

\* The text of a raw extension value: without its two-byte header when it
\* is longer than two characters.
DecodedClaim(raw) ==
    IF Len(raw) > 2 THEN SubSeq(raw, 3, Len(raw)) ELSE raw

\* The certificate's pass-type extension decodes to this JSON value.
ClaimsPassType(cert, value) ==
    \E raw \in ExtensionValues(cert, OID_PASSTYPE) : value = Str(DecodedClaim(raw))

\* C5: the pass-type result is mandatory, and success exactly when the
\* pass-type identifier decoded from the certificate's extension equals
\* passTypeIdentifier of the Pass Descriptor.
C5_PassTypeResultComparesClaim ==
    (SingleCertificateRun /\ LastJson.t = "obj") =>
        LET r == results.signature[1]
            matches == ClaimsPassType(LastCertificate,
                                      Get(LastJson, "passTypeIdentifier"))
        IN  /\ r.mandatory
            /\ r.status = IF matches THEN "success" ELSE "error"

\* The indices of the results of status error.
Errors(category) ==
    {i \in 1..Len(category) : category[i].status = "error"}

\* C6: the team-identifier result is mandatory, and success exactly when
\* the certificate's subject OU equals teamIdentifier of the Pass
\* Descriptor; an otherwise valid archive whose certificate names another
\* team has structure and keys all success and exactly one signature error,
\* the team-identifier result.
C6_TeamResultComparesOU ==
    (SingleCertificateRun /\ LastJson.t = "obj") =>
        LET r == results.signature[2]
            cert == LastCertificate
            sameTeam == Str(cert.subject.OU) = Get(LastJson, "teamIdentifier")
            otherwiseValid ==
                /\ last.file.entries = ChecklistNames
                /\ \A i \in 1..6 : Truthy(Get(LastJson,
                       <<"description", "formatVersion", "organizationName",
                         "passTypeIdentifier", "serialNumber",
                         "teamIdentifier">>[i]))
                /\ Get(LastJson, "formatVersion") = Num(1)
                /\ ClaimsPassType(cert, Get(LastJson, "passTypeIdentifier"))
                /\ "CN" \in DOMAIN cert.issuer
                /\ Includes(cert.issuer.CN, "Apple")
                /\ cert.validity.notBefore < last.now
                /\ last.now < cert.validity.notAfter
        IN  /\ r.mandatory
            /\ r.status = IF sameTeam THEN "success" ELSE "error"
            /\ (otherwiseValid /\ ~sameTeam) =>
                  /\ Errors(results.structure) = {}
                  /\ Errors(results.keys) = {}
                  /\ Errors(results.signature) = {2}

\* The descriptor with another passTypeIdentifier.
WithPassType(json, value) ==
    Obj([key \in DOMAIN json.f \cup {"passTypeIdentifier"} |->
            IF key = "passTypeIdentifier" THEN value ELSE json.f[key]])

\* C7: a second validation of the same archive and signature, with a
\* descriptor that differs only in a passTypeIdentifier the certificate
\* does not claim, differs from the first (whose passTypeIdentifier the
\* certificate claims) in exactly the pass-type result, success in the
\* first and error in the second.
C7_PassTypeMutationFlipsOneResult ==
    (/\ SingleCertificateRun
     /\ LastJson.t = "obj"
     /\ ClaimsPassType(LastCertificate, Get(LastJson, "passTypeIdentifier")))
    => \A other \in {Str("pass.a"), Str("pass.b"), Str("pass.c")} :
          ~ClaimsPassType(LastCertificate, other) =>
             LET json2 == WithPassType(LastJson, other)
                 zip2 == [last.file EXCEPT !.pass = Text(json2)]
                 second == report(zip2, json2, last.now).signature
             IN  /\ Len(second) = Len(results.signature)
                 /\ results.signature[1].status = "success"
                 /\ second[1].status = "error"
                 /\ \A i \in 2..Len(second) : second[i] = results.signature[i]

\* The WWDR generation read from the OU value and the issuer CN: G4 before
\* G3.
Generation(ou, cn) ==
    IF Includes(ou, "G4") \/ Includes(cn, "G4") THEN "G4"
    ELSE IF Includes(ou, "G3") \/ Includes(cn, "G3") THEN "G3"
    ELSE "Unknown"

\* C8: the WWDR result is non-mandatory and reports the generation
\* inferred from the OU value and the issuer CN (G4, else G3, else
\* Unknown); its status is warning exactly for Unknown and success for G3
\* and G4.
C8_GenerationInferred ==
    SingleCertificateRun =>
        LET r == results.signature[5]
            cert == LastCertificate
            cn == IF "CN" \in DOMAIN cert.issuer THEN cert.issuer.CN ELSE ""
            generation == Generation(cert.subject.OU, cn)
        IN  /\ ~r.mandatory
            /\ Includes(r.label, generation)
            /\ r.status = IF generation = "Unknown" THEN "warning" ELSE "success"

Checklist ==
    <<"manifest.json", "pass.json", "signature", "icon.png", "icon@2x.png",
      "icon@3x.png">>

\* C9: the structure category holds one result per checklist item, in the
\* checklist's order: success for an entry that is present, error for an
\* absent one of the first five, info for an absent icon@3x.png; mandatory
\* for the first five only.
C9_StructureFollowsChecklist ==
    Reported =>
        /\ Len(results.structure) = 6
        /\ \A i \in 1..6 :
              LET r == results.structure[i]
              IN  /\ Includes(r.label, Checklist[i])
                  /\ r.mandatory = (i <= 5)
                  /\ r.status =
                        IF Checklist[i] \in last.file.entries THEN "success"
                        ELSE IF i <= 5 THEN "error"
                        ELSE "info"

\* C9 witness: a report on an archive without manifest.json and without
\* icon@3x.png.
C9_Witness ==
    /\ Reported
    /\ "manifest.json" \notin last.file.entries
    /\ "icon@3x.png" \notin last.file.entries
    /\ results.structure[1].status = "error"
    /\ results.structure[6].status = "info"

\* C10: the formatVersion result is success when formatVersion is the
\* number 1, and error for every other value and for a missing one.
C10_FormatVersionMustBeOne ==
    Reported =>
        LET fv == Get(LastJson, "formatVersion")
            isOne == fv.t = "num" /\ fv.v = 1
        IN  results.keys[2].status = IF isOne THEN "success" ELSE "error"

\* C10 witness: a report on a descriptor whose formatVersion is the string
\* "1".
C10_Witness ==
    /\ Reported
    /\ Get(LastJson, "formatVersion") = Str("1")
    /\ results.keys[2].status = "error"

\* The keys of the Schema Checker, in its order.
SchemaKeys ==
    <<"description", "formatVersion", "organizationName",
      "passTypeIdentifier", "serialNumber", "teamIdentifier">>

\* A value that is defined and not empty.
Populated(value) ==
    /\ value.t \notin {"undefined", "null"}
    /\ value.t = "str" => value.v # ""
    /\ value.t = "num" => value.v # 0
    /\ value.t = "bool" => value.v

\* C11: the keys category holds six results, one per key in the order
\* description, formatVersion, organizationName, passTypeIdentifier,
\* serialNumber, teamIdentifier, all mandatory; for the five keys other
\* than formatVersion the status is success exactly when the descriptor's
\* value is populated.
C11_KeysFollowSchema ==
    Reported =>
        /\ Len(results.keys) = 6
        /\ \A i \in 1..6 :
              LET r == results.keys[i]
              IN  /\ Includes(r.label, SchemaKeys[i])
                  /\ r.mandatory
                  /\ r.status \in {"success", "error"}
                  /\ i # 2 =>
                       (r.status = "success"
                          <=> Populated(Get(LastJson, SchemaKeys[i])))

\* C11 witness: a report on a descriptor whose description is the empty
\* string and whose serialNumber is populated.
C11_Witness ==
    /\ Reported
    /\ Get(LastJson, "description") = Str("")
    /\ results.keys[1].status = "error"
    /\ results.keys[5].status = "success"

\* C12: the issuer result is mandatory, and success exactly when the
\* issuer's Common Name contains 'Apple' (case-sensitive, anywhere in the
\* name); an issuer without CN gives error.
C12_IssuerMustNameApple ==
    CertificateRun =>
        LET r == results.signature[3]
            issuer == LastCertificate.issuer
            apple == /\ "CN" \in DOMAIN issuer
                     /\ \E i \in 1..Len(issuer.CN) :
                           /\ i + 4 <= Len(issuer.CN)
                           /\ SubSeq(issuer.CN, i, i + 4) = "Apple"
        IN  /\ r.mandatory
            /\ r.status = IF apple THEN "success" ELSE "error"

\* C12 witness: a certificate whose issuer CN has 'Apple' in its middle
\* passed the issuer check.
C12_Witness ==
    /\ CertificateRun
    /\ LastCertificate.issuer = [CN |-> "WWDR Apple CA"]
    /\ results.signature[3].status = "success"

\* C13: the validity result is mandatory, and success exactly when
\* notBefore < now < notAfter, both strictly.
C13_ValidityWindowIsStrict ==
    CertificateRun =>
        LET r == results.signature[4]
            validity == LastCertificate.validity
        IN  /\ r.mandatory
            /\ r.status = IF validity.notBefore < last.now
                             /\ last.now < validity.notAfter
                          THEN "success" ELSE "error"

\* C13 witness: the clock read exactly notAfter of a certificate whose
\* window is not empty, and the result is error.
C13_Witness ==
    /\ CertificateRun
    /\ LastCertificate.validity.notBefore < LastCertificate.validity.notAfter
    /\ last.now = LastCertificate.validity.notAfter
    /\ results.signature[4].status = "error"

\* Every result of the three categories.
AllResults ==
    {results.structure[i] : i \in 1..Len(results.structure)}
    \cup {results.keys[i] : i \in 1..Len(results.keys)}
    \cup {results.signature[i] : i \in 1..Len(results.signature)}

\* C14: in every report, a mandatory result has status success or error,
\* never warning or info.
C14_MandatoryFailureIsError ==
    \A r \in AllResults : r.mandatory => r.status \in {"success", "error"}

\* C14 witness: a report with a mandatory error next to the info of the
\* optional icon and the warning of the WWDR check.
C14_Witness ==
    /\ CertificateRun
    /\ \E r \in AllResults : r.mandatory /\ r.status = "error"
    /\ results.structure[6].status = "info"
    /\ results.signature[5].status = "warning"

\* The labels of a category, in its order.
Labels(category) == [i \in 1..Len(category) |-> category[i].label]

\* C15: every report keeps each checker's results in its own category and
\* in emission order: structure is the six checklist results, keys the six
\* key results, and signature holds only results of the Signature Verifier,
\* in step order (pass type, team identifier, issuer, validity, WWDR);
\* nothing is duplicated, dropped or put in another category.
C15_CategoriesKeepTheirResults ==
    Reported =>
        /\ Labels(results.structure) =
             <<"Has manifest.json file", "Has pass.json", "Has signature file",
               "Has icon.png file", "Has icon@2x.png file",
               "Has icon@3x.png file (not mandatory)">>
        /\ Labels(results.keys) =
             <<"Has description", "Has formatVersion with value of 1",
               "Has organizationName", "Has passTypeIdentifier",
               "Has serialNumber", "Has teamIdentifier">>
        /\ Labels(results.signature) \in
             { <<>>,
               <<"Cryptographic check failed">>,
               <<"PassTypeIdentifier in signature matches pass.json",
                 "TeamIdentifier in signature matches pass.json",
                 "PassKit Certificate issued by Apple",
                 "PassKit Certificate in date",
                 "WWDR Certificate is version (G4)">> }
        /\ CertificateRun => Len(results.signature) = 5

\* C15 witness: a report whose signature category holds the five
\* certificate results.
C15_Witness ==
    /\ CertificateRun
    /\ Len(results.structure) = 6
    /\ Len(results.keys) = 6
    /\ Len(results.signature) = 5

\* The field-group keys of the descriptor, in the priority order.
GroupPriority == <<"eventTicket", "boardingPass", "coupon", "generic">>

\* The positions of GroupPriority whose key holds a value in the descriptor
\* (a key holding null, "", 0 or false holds none).
PresentGroups(data) ==
    {i \in 1..4 : Truthy(Get(data, GroupPriority[i]))}

\* C16: at every render, the field group is null while no descriptor is
\* set; with a descriptor set it is the value of the first key of
\* eventTicket, boardingPass, coupon, generic the descriptor holds, and
\* the empty object when it holds none of the four.
C16_FirstPresentGroupIsRendered ==
    LET present == PresentGroups(passData)
    IN  /\ ~Truthy(passData) => fields(passData) = Null
        /\ Truthy(passData) /\ present = {} => fields(passData) = Obj(<<>>)
        /\ Truthy(passData) /\ present # {} =>
              \E i \in present :
                 /\ \A j \in present : i <= j
                 /\ fields(passData) = Get(passData, GroupPriority[i])

\* C16 witness: the descriptor holds both eventTicket and generic, and
\* the eventTicket group is the one rendered.
C16_Witness ==
    /\ Truthy(passData)
    /\ {1, 4} \subseteq PresentGroups(passData)
    /\ fields(passData) = FieldGroup("eventTicket")
    /\ fields(passData) # Get(passData, "generic")

\* validatePass can compute this report for an archive of Files whose
\* pass.json parses to the descriptor.
IsReportOf(rep, json) ==
    \E file \in Files :
        /\ file.kind = "zip"
        /\ file.pass.k = "json"
        /\ JSONparse(file.pass) = json
        /\ \E now \in (IF HasFile(file, "signature") /\ ReadsClock(file)
                       THEN 0..MaxTime ELSE {NoTime}) :
              rep = report(file, json, now)

\* C17: under every interleaving of uploads, resets and completions, once
\* every upload has ended, a descriptor that is shown comes with a report
\* computed for an archive holding that descriptor, never with the report
\* of another archive.
C17_DescriptorAndReportOfSameArchive ==
    Settled /\ Truthy(passData) => IsReportOf(results, passData)

\* s.startsWith(prefix)
StartsWith(s, prefix) ==
    Len(s) >= Len(prefix) /\ SubSeq(s, 1, Len(prefix)) = prefix

\* The positions, in the bundled certificate set, of the certificates whose
\* subject CN names a Pass-Type certificate.
PassTypeCertificates(sig) ==
    {i \in 1..Len(sig.certificates) :
        LET subject == sig.certificates[i].subject
        IN  /\ "CN" \in DOMAIN subject
            /\ \/ StartsWith(subject.CN, "Pass Type ID:")
               \/ StartsWith(subject.CN, "Pass Type ID with NFC:")}

\* C18: when the bundled certificate set holds one certificate whose
\* subject CN starts with "Pass Type ID:" or "Pass Type ID with NFC:", the
\* pass-type result is taken from that certificate's extensions, wherever
\* the certificate sits in the set: the result is success exactly when that
\* certificate carries the pass-type-identifier extension.
C18_PassTypeCertificateIsSearched ==
    CertificateRun =>
        \A i \in PassTypeCertificates(last.file.sig) :
            PassTypeCertificates(last.file.sig) = {i} =>
                (results.signature[1].status = "success"
                    <=> ExtensionValues(last.file.sig.certificates[i],
                                        OID_PASSTYPE) # {})

\* C19: when the decoded signed-data message holds no Signer Info, the
\* signature category of the report is the single fail-fast error result,
\* whatever certificates the message bundles.
C19_NoSignerInfoFailsFast ==
    (/\ Reported
     /\ "signature" \in last.file.entries
     /\ last.file.sig.k = "signedData"
     /\ last.file.sig.signerInfos = 0)
        => /\ Len(results.signature) = 1
           /\ results.signature[1].label = "Cryptographic check failed"
           /\ results.signature[1].status = "error"

\* The same archive with a signature entry that decodes.
WithBaseSignature(file) == [file EXCEPT !.sig = BaseSignature]

\* The step ends an upload with a report, for an archive whose signature
\* entry does not decode.
EndsWithFailedDecoding ==
    /\ last = NoRun
    /\ last' # NoRun
    /\ last'.outcome = "report"
    /\ "signature" \in last'.file.entries
    /\ DecodingFails(last'.file.sig)

\* C20: a step that ends an upload whose signature decoding throws leaves
\* the Pass Descriptor and the top-level error as they were, the error
\* empty, and sets the structure and keys results to those the same
\* archive and descriptor get when the signature decodes; only the
\* signature category differs.
C20_SignatureFailureIsLocal ==
    [][EndsWithFailedDecoding =>
        LET file == last'.file
            json == JSONparse(file.pass)
            other == report(WithBaseSignature(file), json, 1)
        IN  /\ passData' = passData
            /\ error' = error
            /\ error' = ""
            /\ results'.structure = other.structure
            /\ results'.keys = other.keys
            /\ results'.signature # other.signature]_vars

\* C20 witness: an upload ended with the fail-fast signature result; the
\* descriptor is set, the error is empty and the structure and keys
\* categories are filled.
C20_Witness ==
    /\ Reported
    /\ "signature" \in last.file.entries
    /\ DecodingFails(last.file.sig)
    /\ passData = LastJson
    /\ error = ""
    /\ Len(results.structure) = 6
    /\ Len(results.keys) = 6
    /\ Labels(results.signature) = <<"Cryptographic check failed">>

\* No call of the viewer is suspended.
Idle == inflight = EmptyBag

\* The archives the object URLs, the logo and the image metadata held by
\* the viewer were read from.
HeldArchives ==
    {u.url.archive : u \in objectUrls}
    \cup (IF logoUrl = Null THEN {} ELSE {logoUrl.url.archive})
    \cup (IF fileBlobUrl = Null THEN {} ELSE {fileBlobUrl.url.archive})
    \cup (IF imageMeta = Null THEN {} ELSE {imageMeta.blob.archive})

\* C21: once Reset has run, and once a new upload has replaced a loaded
\* archive, nothing of the prior archive is held: no object URL made from
\* an entry of an archive other than the current one is unrevoked or still
\* in logoUrl, fileBlobUrl or imageMeta, and with no archive open the zip
\* handle, the entry list, the file content and the image metadata are
\* cleared.
C21_NothingOfPriorArchiveIsHeld ==
    Idle =>
        /\ HeldArchives \subseteq (IF zipState = Null THEN {} ELSE {zipState})
        /\ zipState = Null =>
              /\ zipFiles = <<>>
              /\ fileContent = Null
              /\ imageMeta = Null

\* C22: the logo shown with a pass is the one of the archive loaded: with
\* a pass shown and no call suspended, logoUrl is null when the archive
\* has none of logo@2x.png, logo.png, icon@2x.png, icon.png, and otherwise
\* it is the URL of the first of them the archive has.
C22_LogoOfLoadedArchive ==
    (Idle /\ Truthy(passData) /\ zipState # Null) =>
        IF logoFile(zipState) = Null
        THEN logoUrl = Null
        ELSE /\ logoUrl # Null
             /\ logoUrl.url = EntryBlob(zipState, logoFile(zipState).name)

\* C23: in every state, under every interleaving of uploads, a non-empty
\* error comes with a null passData: the error banner and a pass preview
\* are never shown together.
C23_ErrorExcludesPass ==
    error # "" => passData = Null

\* What the details panel shows of an entry of an archive, once the
\* entry is read: its text, or its object URL and image metadata.
ShownText(zipInstance, name) ==
    IF IsJsonName(name)
    THEN JSONstringify(JSONparse(EntryText(zipInstance, name)))
    ELSE EntryText(zipInstance, name)

\* C24: once every pending read of the file browser has completed, what
\* the panel displays is the content of the entry named by selectedFile: a
\* text shown is that entry's text, and an image shown with its metadata
\* is that entry's image and metadata.
C24_PanelShowsSelectedEntry ==
    (Idle /\ Truthy(passData) /\ zipState # Null) =>
        /\ fileContent # Null =>
              /\ ~IsImageName(selectedFile)
              /\ fileContent = ShownText(zipState, selectedFile)
        /\ (fileBlobUrl # Null /\ imageMeta # Null) =>
              /\ IsImageName(selectedFile)
              /\ fileBlobUrl.url = EntryBlob(zipState, selectedFile)
              /\ imageMeta.name = selectedFile

\* C25: in every state of the file browser at most one of fileContent and
\* fileBlobUrl is non-null.
C25_TextAndImageExclusive ==
    ~(fileContent # Null /\ fileBlobUrl # Null)

====
